---- MODULE Spec2Model ----
(***************************************************************************)
(* ORION MCP client: the /intent handler (mcp_client/main.py), the         *)
(* orchestration loop of MCPClient for its three providers                 *)
(* (mcp_client/client.py), the conversation repair pass and the CSV result *)
(* logger (mcp_client/utils/results_file.py).                              *)
(***************************************************************************)
EXTENDS Integers, Sequences, FiniteSets, TLC

VARIABLES
    llm,            \* main.py: the configured provider name (module global)
    llm_name,       \* MCPClient.llm_name ("none" until set_llm)
    messages,       \* MCPClient.messages: the one conversation of the process
    pc,             \* per request: where its coroutine stands
    running,        \* the request whose coroutine holds the event loop (0: none)
    loc,            \* per request: the locals of call_openai/anthropic/gemini
    policies,       \* the POSTs issued to {rapp}/create_policy, in order
    results_file,   \* the CSV file at result_file_path
    http,           \* per request: the HTTP response of POST /intent
    rhist,          \* repair study: the conversation before/after each pass
    input_schema,   \* resolver study: the argument of resolve_genai_schema
    flattened       \* resolver study: what the call returned or raised

vars == <<llm, llm_name, messages, pc, running, loc, policies, results_file,
          http, rhist, input_schema, flattened>>

-----------------------------------------------------------------------------
(* Bounds *)

\* Requests (POST /intent) served by the process.
MaxReq == 2
\* Longest conversation fed to the repair pass when it is studied alone.
MaxConvLen == 3
\* Number of successive repair passes applied when it is studied alone.
MaxRepairs == 2
\* Most options in an anyOf list of the schemas fed to resolve_genai_schema.
MaxOptions == 2

Reqs == 1..MaxReq
LLMNames == {"openai", "anthropic", "gemini"}

-----------------------------------------------------------------------------
(* Messages *)

\* A message's content is a str or a list of typed blocks.
TextContent(tag, req) ==
    [list |-> FALSE, tag |-> tag, req |-> req, blocks |-> <<>>]
ListContent(blocks) ==
    [list |-> TRUE, tag |-> "", req |-> 0, blocks |-> blocks]

Msg(role, content) == [role |-> role, content |-> content]

TextBlock == [type |-> "text", id |-> 0]
ToolUse(id) == [type |-> "tool_use", id |-> id]
ToolResultBlock(id) == [type |-> "tool_result", id |-> id]

\* set_llm's initial_prompt message.
InitialPrompt == Msg("user", TextContent("initial_prompt", 0))
\* {"role": "user", "content": intent}; request r carries the intent text r.
UserIntent(r) == Msg("user", TextContent("intent", r))

-----------------------------------------------------------------------------
(* Conversation repair *)

MessageHasBlock(message, block_type) ==
    /\ message.content.list
    /\ \E i \in 1..Len(message.content.blocks) :
           message.content.blocks[i].type = block_type

Front(s) == SubSeq(s, 1, Len(s) - 1)

\* RepairStep, dropping the message after the dangling turn as well.
RepairStepDropsFollower(st, message) ==
    LET dangling == st.pending_tool_use
                    /\ ~MessageHasBlock(message, "tool_result")
                    /\ st.repaired # <<>>
    IN  [repaired |-> IF dangling THEN Front(st.repaired)
                      ELSE Append(st.repaired, message),
         pending_tool_use |-> /\ ~dangling
                              /\ message.role = "assistant"
                              /\ MessageHasBlock(message, "tool_use")]

\* One iteration of the for loop: st = [repaired, pending_tool_use].
RepairStep(st, message) ==
    LET popped == IF st.pending_tool_use
                     /\ ~MessageHasBlock(message, "tool_result")
                     /\ st.repaired # <<>>
                  THEN Front(st.repaired) ELSE st.repaired
    IN  [repaired |-> Append(popped, message),
         pending_tool_use |-> /\ message.role = "assistant"
                              /\ MessageHasBlock(message, "tool_use")]

RECURSIVE RepairLoop(_, _, _)
RepairLoop(msgs, i, st) ==
    IF i > Len(msgs) THEN st
    ELSE RepairLoop(msgs, i + 1, RepairStep(st, msgs[i]))

\* RepairAnthropicMessages without its guard on the provider.
RepairAnyProvider(name, msgs) ==
    LET st == RepairLoop(msgs, 1,
                  [repaired |-> <<>>, pending_tool_use |-> FALSE])
    IN  IF st.pending_tool_use /\ st.repaired # <<>>
        THEN Front(st.repaired) ELSE st.repaired

\* RepairAnthropicMessages whose last pop does not look at pending_tool_use.
RepairFinalPopAlways(name, msgs) ==
    IF name # "anthropic" \/ msgs = <<>> THEN msgs
    ELSE LET st == RepairLoop(msgs, 1,
                       [repaired |-> <<>>, pending_tool_use |-> FALSE])
         IN  IF st.repaired # <<>> THEN Front(st.repaired) ELSE st.repaired

\* The value of self.messages after _repair_anthropic_messages().
RepairAnthropicMessages(name, msgs) ==
    IF name # "anthropic" \/ msgs = <<>> THEN msgs
    ELSE LET st == RepairLoop(msgs, 1,
                       [repaired |-> <<>>, pending_tool_use |-> FALSE])
             repaired == IF st.pending_tool_use /\ st.repaired # <<>>
                         THEN Front(st.repaired) ELSE st.repaired
         IN  IF repaired # msgs THEN repaired ELSE msgs

-----------------------------------------------------------------------------
(* What the outside world can answer *)

\* The id the provider gives the k-th tool call it requests for request r.
ToolUseId(r, k) == 2 * (r - 1) + k

\* openai: response.output, a list of typed items.
MessageItem == [type |-> "message", call_id |-> 0, args_ok |-> TRUE]
ReasoningItem == [type |-> "reasoning", call_id |-> 0, args_ok |-> TRUE]
FunctionCallItem(id, ok) == [type |-> "function_call", call_id |-> id, args_ok |-> ok]

OpenaiResponses(r) ==
    { <<>>,
      <<MessageItem>>,
      <<FunctionCallItem(ToolUseId(r, 1), TRUE)>>,
      <<FunctionCallItem(ToolUseId(r, 1), FALSE)>>,
      <<ReasoningItem, FunctionCallItem(ToolUseId(r, 1), TRUE)>>,
      <<MessageItem, FunctionCallItem(ToolUseId(r, 1), TRUE)>>,
      <<FunctionCallItem(ToolUseId(r, 1), TRUE),
        FunctionCallItem(ToolUseId(r, 2), TRUE)>> }

\* anthropic: response.content, a list of typed blocks.
AnthropicResponses(r) ==
    { <<>>,
      <<TextBlock>>,
      <<ToolUse(ToolUseId(r, 1))>>,
      <<TextBlock, ToolUse(ToolUseId(r, 1))>>,
      <<TextBlock, TextBlock>>,
      <<ToolUse(ToolUseId(r, 1)), ToolUse(ToolUseId(r, 2))>> }

\* gemini: response.candidates, each a list of parts.
TextPart == [function_call |-> FALSE]
FunctionCallPart == [function_call |-> TRUE]

GeminiResponses(r) ==
    { <<>>,
      << <<>> >>,
      << <<TextPart>> >>,
      << <<FunctionCallPart>> >>,
      << <<TextPart, FunctionCallPart>> >>,
      << <<FunctionCallPart, TextPart>> >>,
      << <<FunctionCallPart>>, <<TextPart>> >> }

ProviderResponses(name, r) ==
    CASE name = "openai" -> OpenaiResponses(r)
      [] name = "anthropic" -> AnthropicResponses(r)
      [] OTHER -> GeminiResponses(r)

\* The text of a tool result's first content block: JSON with a "message"
\* field, JSON without one, or no JSON at all.
JsonMessage(d) == [json |-> "message", message |-> d]
JsonNoMessage == [json |-> "nokey", message |-> 0]
NotJson == [json |-> "invalid", message |-> 0]

\* The slice description the booking tool answers for request r's call.
Description(r) == r

ToolResults(r) ==
    { [content |-> <<>>],
      [content |-> <<JsonMessage(Description(r))>>],
      [content |-> <<JsonNoMessage>>],
      [content |-> <<NotJson>>] }

NoToolResult == [content |-> <<>>]

\* The texts of the classification call's answer, in order.
ClassifierResponses ==
    { <<>>, <<"eMBB">>, <<"uRRLC">>, <<"other">>, <<"eMBB", "mMTC">> }

\* results_file.py: fieldnames.
FieldNames == {"intent", "tool_call", "type_definition"}

-----------------------------------------------------------------------------
(* JSON values, as resolve_genai_schema sees them *)

\* A value is a record [t, s, items]: t is its Python type, s the text of a
\* scalar, items the entries of a dict (key k, value v, in insertion order)
\* or the elements of a list (k = "").
Pair(k, v) == [k |-> k, v |-> v]
JNone == [t |-> "none", s |-> "", items |-> <<>>]
JStr(x) == [t |-> "str", s |-> x, items |-> <<>>]
JInt(x) == [t |-> "int", s |-> x, items |-> <<>>]
JTrue == [t |-> "bool", s |-> "true", items |-> <<>>]
JDict(entries) == [t |-> "dict", s |-> "", items |-> entries]
JList(elems) ==
    [t |-> "list", s |-> "",
     items |-> [i \in 1..Len(elems) |-> Pair("", elems[i])]]
\* A Python object json.dumps cannot serialise (a set).
PySet == [t |-> "set", s |-> "", items |-> <<>>]

\* bool(x)
Truthy(x) ==
    CASE x.t = "none" -> FALSE
      [] x.t = "str" -> x.s # ""
      [] x.t = "int" -> x.s # "0"
      [] x.t = "bool" -> x.s = "true"
      [] x.t = "set" -> TRUE
      [] OTHER -> x.items # <<>>

Elems(x) == [i \in 1..Len(x.items) |-> x.items[i].v]
Keys(d) == { d.items[i].k : i \in 1..Len(d.items) }

\* key in d
Has(d, key) == key \in Keys(d)

\* d.get(key, default)
GetOr(d, key, default) ==
    IF Has(d, key)
    THEN d.items[CHOOSE i \in 1..Len(d.items) : d.items[i].k = key].v
    ELSE default

\* d.get(key)
Get(d, key) == GetOr(d, key, JNone)

\* d[key] = v: an existing key keeps its position, a new one goes last.
Put(d, key, v) ==
    IF Has(d, key)
    THEN JDict([i \in 1..Len(d.items) |->
                  IF d.items[i].k = key THEN Pair(key, v) ELSE d.items[i]])
    ELSE JDict(Append(d.items, Pair(key, v)))

\* d.update(e)
RECURSIVE UpdateFrom(_, _, _)
UpdateFrom(d, e, i) ==
    IF i > Len(e.items) THEN d
    ELSE UpdateFrom(Put(d, e.items[i].k, e.items[i].v), e, i + 1)

Update(d, e) == UpdateFrom(d, e, 1)

\* {k: v for k, v in d.items() if k not in dropped}
Without(d, dropped) ==
    JDict(SelectSeq(d.items, LAMBDA p : p.k \notin dropped))

\* {k: v for k, v in d.items() if k in kept}
Only(d, kept) == JDict(SelectSeq(d.items, LAMBDA p : p.k \in kept))

\* What a call gives: a value returned, or an exception raised.
Returned(v) == [exc |-> "none", value |-> v]
Raised(e) == [exc |-> e, value |-> JNone]
NotCalled == [exc |-> "not_called", value |-> JNone]

-----------------------------------------------------------------------------
(* utils/resolver.py: resolve_genai_schema *)

EmptyDict == JDict(<<>>)

\* The names a "#/$defs/<name>" reference can carry in the schemas studied,
\* with the reference text of each; any other text lacks the prefix.
RefTo == [A |-> "#/$defs/A", B |-> "#/$defs/B", C |-> "#/$defs/C"]

\* ref_value.startswith("#/$defs/")
StartsWithDefs(text) == \E n \in DOMAIN RefTo : RefTo[n] = text

\* ref_value.split("/")[-1]
RefKey(text) == CHOOSE n \in DOMAIN RefTo : RefTo[n] = text

\* json.dumps raises TypeError on an object that is not JSON.
RECURSIVE Serialisable(_)
Serialisable(x) ==
    /\ x.t # "set"
    /\ \A i \in 1..Len(x.items) : Serialisable(x.items[i].v)

\* json.loads(json.dumps(x)): a deep copy in which tuples come back as lists.
RECURSIVE JsonRoundTrip(_)
JsonRoundTrip(x) ==
    [t |-> IF x.t = "tuple" THEN "list" ELSE x.t,
     s |-> x.s,
     items |-> [i \in 1..Len(x.items) |->
                  Pair(x.items[i].k, JsonRoundTrip(x.items[i].v))]]

\* dict(x) for the values met here: a dict is copied, an empty list or text
\* gives {}, a list or text whose elements are not pairs raises ValueError
\* (no list studied has an element of length 2), anything else TypeError.
DictOf(x) ==
    CASE x.t = "dict" -> Returned(x)
      [] x.t \in {"list", "str"} ->
             IF Truthy(x) THEN Raised("ValueError") ELSE Returned(EmptyDict)
      [] OTHER -> Raised("TypeError")

\* isinstance(option, dict) and option.get("type") == "null"
IsNullOption(option) ==
    option.t = "dict" /\ Get(option, "type") = JStr("null")

\* option.setdefault(t_key, t_val) for each transferable entry
RECURSIVE SetDefaults(_, _, _)
SetDefaults(option, transferable, i) ==
    IF i > Len(transferable.items) THEN option
    ELSE LET e == transferable.items[i]
         IN  SetDefaults(IF Has(option, e.k) THEN option
                         ELSE Put(option, e.k, e.v),
                         transferable, i + 1)

normalize_any_of(schema_dict) ==
    LET any_of == Get(schema_dict, "anyOf")
        meta == Without(schema_dict, {"anyOf"})
        cleaned_options == Elems(any_of)
        non_null_options ==
            SelectSeq(cleaned_options, LAMBDA o : ~IsNullOption(o))
        has_null == Len(non_null_options) # Len(cleaned_options)
        transferable == Only(meta, {"title", "description"})
    IN  IF any_of.t # "list"
        THEN Returned(JDict(<<Pair("anyOf", any_of)>>))
        ELSE IF has_null /\ Len(non_null_options) = 1
        THEN LET copy == DictOf(non_null_options[1])
             IN  IF copy.exc # "none" THEN copy
                 ELSE Returned(Put(Update(copy.value, meta),
                                   "nullable", JTrue))
        ELSE Returned(JDict(<<Pair("anyOf",
                 JList([i \in 1..Len(cleaned_options) |->
                     IF cleaned_options[i].t = "dict"
                     THEN SetDefaults(cleaned_options[i], transferable, 1)
                     ELSE cleaned_options[i]]))>>))

\* merged.update(base): base is a dict, or update raises.
UpdateWithBase(base) ==
    CASE base.t = "dict" -> Returned(base)
      [] base.t \in {"list", "str"} -> Raised("ValueError")
      [] OTHER -> Raised("TypeError")

RECURSIVE resolve(_, _, _)
RECURSIVE ResolveItems(_, _, _, _)
RECURSIVE ResolveBase(_, _, _)

\* ResolveBase in which a reference to a key being resolved contributes the
\* entry of defs as it stands instead of nothing.
ResolveBaseCopiesCycle(ref_key, defs, resolving) ==
    IF defs.t # "dict" THEN Raised("TypeError")
    ELSE IF ~Has(defs, ref_key) THEN Returned(EmptyDict)
    ELSE IF ref_key \in resolving THEN Returned(Get(defs, ref_key))
    ELSE resolve(Get(defs, ref_key), defs, resolving \cup {ref_key})

\* base = resolve(defs[ref_key]) when ref_key is not being resolved and is
\* in defs, {} otherwise.
ResolveBase(ref_key, defs, resolving) ==
    IF ref_key \in resolving THEN Returned(EmptyDict)
    ELSE CASE defs.t = "dict" ->
                  IF Has(defs, ref_key)
                  THEN resolve(Get(defs, ref_key), defs,
                               resolving \cup {ref_key})
                  ELSE Returned(EmptyDict)
           [] defs.t = "list" ->
                  \* found in the list: defs[ref_key] raises TypeError
                  IF \E i \in 1..Len(defs.items) :
                         defs.items[i].v = JStr(ref_key)
                  THEN Raised("TypeError")
                  ELSE Returned(EmptyDict)
           [] OTHER -> Raised("TypeError")   \* "in" on a scalar

\* The values of a dict's entries (those of $defs and $ref left out) or the
\* elements of a list, resolved in order.
ResolveItems(items, i, defs, resolving) ==
    IF i > Len(items) THEN Returned(<<>>)
    ELSE IF items[i].k \in {"$defs", "$ref"}
    THEN ResolveItems(items, i + 1, defs, resolving)
    ELSE LET head == resolve(items[i].v, defs, resolving)
         IN  IF head.exc # "none" THEN head
             ELSE LET tail == ResolveItems(items, i + 1, defs, resolving)
                  IN  IF tail.exc # "none" THEN tail
                      ELSE Returned(<<Pair(items[i].k, head.value)>>
                                    \o tail.value)

resolve(node, defs, resolving) ==
    IF node.t = "dict"
    THEN LET ref_value == Get(node, "$ref")
         IN  IF Truthy(ref_value) /\ ref_value.t # "str"
             THEN Raised("AttributeError")   \* no startswith
             ELSE
             LET base == IF Truthy(ref_value) /\ StartsWithDefs(ref_value.s)
                         THEN ResolveBase(RefKey(ref_value.s), defs, resolving)
                         ELSE Returned(EmptyDict)
             IN  IF base.exc # "none" THEN base
                 ELSE
                 LET entries == ResolveItems(node.items, 1, defs, resolving)
                     resolved == JDict(entries.value)
                 IN  IF entries.exc # "none" THEN entries
                     ELSE IF Truthy(base.value)
                     THEN LET first == UpdateWithBase(base.value)
                              merged == Update(first.value, resolved)
                          IN  IF first.exc # "none" THEN first
                              ELSE IF Has(merged, "anyOf")
                              THEN normalize_any_of(merged)
                              ELSE Returned(merged)
                     ELSE IF Has(resolved, "anyOf")
                     THEN normalize_any_of(resolved)
                     ELSE Returned(resolved)
    ELSE IF node.t = "list"
    THEN LET elems == ResolveItems(node.items, 1, defs, resolving)
         IN  IF elems.exc # "none" THEN elems
             ELSE Returned([t |-> "list", s |-> "", items |-> elems.value])
    ELSE Returned(node)

resolve_genai_schema(schema) ==
    IF ~Truthy(schema) THEN Returned(JNone)
    ELSE IF ~Serialisable(schema) THEN Raised("TypeError")
    ELSE LET schema_dict == JsonRoundTrip(schema)
         IN  IF schema_dict.t # "dict"
             THEN Raised("AttributeError")   \* no get
             ELSE LET defs == GetOr(schema_dict, "$defs", EmptyDict)
                      result == resolve(schema_dict, defs, {})
                  IN  IF result.exc # "none" THEN result
                      ELSE IF result.value.t = "dict"
                      THEN Returned(Without(result.value, {"$defs"}))
                      ELSE result

-----------------------------------------------------------------------------
(* State *)

NoReturn == [kind |-> "unset", req |-> 0]
NoResponse == [status |-> 0, kind |-> "none", detail |-> "", req |-> 0]

InitLoc ==
    [results_log |-> {},          \* the keys of results_log
     response |-> <<>>,
     i |-> 1,                     \* position of the loop over the response
     call_id |-> 0,
     provider_calls |-> 0,        \* provider calls issued with the conversation
     tool_calls |-> 0,            \* session.call_tool calls issued
     tool_failed |-> FALSE,       \* session.call_tool raised
     classifier_calls |-> 0,      \* classification calls issued
     tool_result |-> NoToolResult,
     slice |-> 0,
     classifier |-> <<>>,
     classified |-> FALSE,        \* the classification call returned
     slice_type |-> "",
     exc |-> "none",              \* the exception propagating, if any
     ret |-> NoReturn]            \* the value returned

Init ==
    /\ llm \in LLMNames
    /\ llm_name = "none"
    /\ messages = <<>>
    /\ pc = [r \in Reqs |-> "idle"]
    /\ running = 0
    /\ loc = [r \in Reqs |-> InitLoc]
    /\ policies = <<>>
    /\ results_file = [exists |-> FALSE, header |-> FALSE, rows |-> <<>>]
    /\ http = [r \in Reqs |-> NoResponse]
    /\ rhist = <<>>
    /\ input_schema = JNone
    /\ flattened = NotCalled

\* The requests being handled: received and not yet answered.
InProgress == {q \in Reqs : pc[q] \notin {"idle", "done"}}

-----------------------------------------------------------------------------
(* POST /intent: process_query, set_llm *)

\* process_query up to set_llm's await of session.list_tools().
Start(r) ==
    /\ pc[r] = "idle"
    /\ running = 0
    /\ r > 1 => pc[r - 1] # "idle"
    /\ llm_name' = llm
    /\ pc' = [pc EXCEPT ![r] = "list_tools"]
    /\ UNCHANGED <<input_schema, flattened, llm, messages, running, loc, policies, results_file, http,
                   rhist>>

\* HTTPException(status_code=500, detail=str(e))
ErrorResponse(r, e) == [status |-> 500, kind |-> "error", detail |-> e, req |-> r]

\* SetLlm starting the conversation afresh instead of inserting into it.
SetLlmResets(r) ==
    /\ pc[r] = "list_tools"
    /\ running = 0
    /\ messages' = <<InitialPrompt>>
    /\ pc' = [pc EXCEPT ![r] = "append_intent"]
    /\ running' = r
    /\ UNCHANGED <<input_schema, flattened, llm, llm_name, loc, policies,
                   results_file, http, rhist>>

\* list_tools() answers: set_llm inserts initial_prompt at index 0.
SetLlm(r) ==
    /\ pc[r] = "list_tools"
    /\ running = 0
    /\ messages' = <<InitialPrompt>> \o messages
    /\ pc' = [pc EXCEPT ![r] = "append_intent"]
    /\ running' = r
    /\ UNCHANGED <<input_schema, flattened, llm, llm_name, loc, policies, results_file, http, rhist>>

\* list_tools() raises: get_mcp_tools wraps it, set_llm and process_query
\* pass it on as a 500.
SetLlmFails(r) ==
    /\ pc[r] = "list_tools"
    /\ running = 0
    /\ http' = [http EXCEPT ![r] = ErrorResponse(r, "Failed to get tools")]
    /\ pc' = [pc EXCEPT ![r] = "done"]
    /\ UNCHANGED <<input_schema, flattened, llm, llm_name, messages, running, loc, policies,
                   results_file, rhist>>

-----------------------------------------------------------------------------
(* call_openai / call_anthropic / call_gemini: the common steps *)

\* AppendIntent without the repair pass of call_anthropic.
AppendIntentNoRepair(r) ==
    /\ pc[r] = "append_intent"
    /\ running = r
    /\ messages' = Append(messages, UserIntent(r))
    /\ loc' = [loc EXCEPT ![r].results_log = {}]
    /\ pc' = [pc EXCEPT ![r] = "provider_call"]
    /\ UNCHANGED <<input_schema, flattened, llm, llm_name, running, policies,
                   results_file, http, rhist>>

\* messages.append(user_intent); call_anthropic then repairs.
AppendIntent(r) ==
    /\ pc[r] = "append_intent"
    /\ running = r
    /\ messages' = IF llm_name = "anthropic"
                   THEN RepairAnthropicMessages(llm_name,
                            Append(messages, UserIntent(r)))
                   ELSE Append(messages, UserIntent(r))
    /\ loc' = [loc EXCEPT ![r].results_log = {}]
    /\ pc' = [pc EXCEPT ![r] = "provider_call"]
    /\ UNCHANGED <<input_schema, flattened, llm, llm_name, running, policies, results_file, http,
                   rhist>>

\* The provider call with the whole conversation; it answers or raises.
ProviderCall(r) ==
    /\ pc[r] = "provider_call"
    /\ running = r
    /\ \/ /\ loc' = [loc EXCEPT ![r].provider_calls = @ + 1,
                                  ![r].exc = "ProviderError"]
          /\ pc' = [pc EXCEPT ![r] = "finally"]
       \/ \E resp \in ProviderResponses(llm_name, r) :
            /\ loc' = [loc EXCEPT ![r].provider_calls = @ + 1,
                                  ![r].response = resp,
                                  ![r].results_log = {"intent"}]
            /\ pc' = [pc EXCEPT ![r] = "handle_response"]
    /\ UNCHANGED <<input_schema, flattened, llm, llm_name, messages, running, policies, results_file,
                   http, rhist>>

-----------------------------------------------------------------------------
(* Helpers of the provider branches *)

AssistantText(r) == Msg("assistant", TextContent("assistant", r))
AssistantMessage(r) == [kind |-> "assistant_message", req |-> r]
PolicyText(r) == [kind |-> "policy_text", req |-> r]
ReturnNone == [kind |-> "null", req |-> 0]

\* json.loads(tool_output)['message']
DecodeMessage(text) ==
    CASE text.json = "message" -> [exc |-> "none", value |-> text.message]
      [] text.json = "nokey" -> [exc |-> "KeyError", value |-> 0]
      [] OTHER -> [exc |-> "JSONDecodeError", value |-> 0]

\* How each branch reads slice_type out of the classification answer.
ExtractSliceType(name, texts) ==
    CASE name = "openai" ->
             \* the last "message" item's text, None when there is none
             [exc |-> "none",
              value |-> IF texts = <<>> THEN "null" ELSE texts[Len(texts)]]
      [] name = "anthropic" ->
             \* slice_type_response.content[0].text
             IF texts = <<>> THEN [exc |-> "IndexError", value |-> ""]
             ELSE [exc |-> "none", value |-> texts[1]]
      [] OTHER ->
             \* the last text part; slice_type is unbound when there is none
             IF texts = <<>> THEN [exc |-> "UnboundLocalError", value |-> ""]
             ELSE [exc |-> "none", value |-> texts[Len(texts)]]

\* json.dumps({...}) and the json.loads(payload) of slice_request.
JsonDumps(obj) == [json_text |-> obj]
JsonLoads(text) == text.json_text

\* Payload, the classification result left out.
PayloadWithoutType(slice, slice_type) ==
    JsonDumps([sliceDescription |-> slice, sliceType |-> "null"])

Payload(slice, slice_type) ==
    JsonDumps([sliceDescription |-> slice, sliceType |-> slice_type])

-----------------------------------------------------------------------------
(* call_openai *)

\* One turn of "for item in response.output", up to a return, a raise or
\* the await of session.call_tool.
OpenaiItem(r) ==
    /\ llm_name = "openai"
    /\ pc[r] = "handle_response"
    /\ running = r
    /\ LET out == loc[r].response
           i == loc[r].i
       IN  \/ /\ i > Len(out)               \* the loop ends: returns None
              /\ loc' = [loc EXCEPT ![r].ret = ReturnNone]
              /\ pc' = [pc EXCEPT ![r] = "finally"]
              /\ UNCHANGED <<messages, running>>
           \/ /\ i <= Len(out)
              /\ out[i].type = "message"
              /\ messages' = Append(messages, AssistantText(r))
              /\ loc' = [loc EXCEPT
                     ![r].results_log = {"intent", "intent_processing"},
                     ![r].ret = AssistantMessage(r)]
              /\ pc' = [pc EXCEPT ![r] = "finally"]
              /\ UNCHANGED running
           \/ /\ i <= Len(out)
              /\ out[i].type = "function_call"
              /\ ~out[i].args_ok            \* json.loads(tool_args) raises
              /\ loc' = [loc EXCEPT ![r].exc = "ToolExecutionFailed"]
              /\ pc' = [pc EXCEPT ![r] = "finally"]
              /\ UNCHANGED <<messages, running>>
           \/ /\ i <= Len(out)
              /\ out[i].type = "function_call"
              /\ out[i].args_ok
              /\ loc' = [loc EXCEPT ![r].call_id = out[i].call_id,
                                    ![r].tool_calls = @ + 1]
              /\ pc' = [pc EXCEPT ![r] = "call_tool"]
              /\ running' = 0
              /\ UNCHANGED messages
           \/ /\ i <= Len(out)
              /\ out[i].type \notin {"message", "function_call"}
              /\ loc' = [loc EXCEPT ![r].i = i + 1]
              /\ UNCHANGED <<messages, running, pc>>
    /\ UNCHANGED <<input_schema, flattened, llm, llm_name, policies, results_file, http, rhist>>

\* After the tool call: the tool-output turn and the slice description.
OpenaiToolDone(r) ==
    /\ llm_name = "openai"
    /\ pc[r] = "tool_done"
    /\ running = r
    /\ LET content == loc[r].tool_result.content
       IN  \/ /\ content = <<>>             \* falsy content: next item
              /\ loc' = [loc EXCEPT ![r].i = @ + 1]
              /\ pc' = [pc EXCEPT ![r] = "handle_response"]
              /\ UNCHANGED messages
           \/ /\ content # <<>>
              /\ messages' = Append(messages,
                     Msg("user", TextContent("tool_output", r)))
              /\ LET d == DecodeMessage(content[1])
                 IN  IF d.exc # "none"
                     THEN /\ loc' = [loc EXCEPT ![r].exc = d.exc]
                          /\ pc' = [pc EXCEPT ![r] = "finally"]
                     ELSE /\ loc' = [loc EXCEPT ![r].slice = d.value]
                          /\ pc' = [pc EXCEPT ![r] = "classify"]
    /\ UNCHANGED <<input_schema, flattened, llm, llm_name, running, policies, results_file, http,
                   rhist>>

-----------------------------------------------------------------------------
(* call_anthropic *)

\* Index of the first tool_use block from position i on, 0 when none.
RECURSIVE FirstToolUse(_, _)
FirstToolUse(blocks, i) ==
    IF i > Len(blocks) THEN 0
    ELSE IF blocks[i].type = "tool_use" THEN i
    ELSE FirstToolUse(blocks, i + 1)

AnthropicHandle(r) ==
    /\ llm_name = "anthropic"
    /\ pc[r] = "handle_response"
    /\ running = r
    /\ LET content == loc[r].response
           k == FirstToolUse(content, 1)
       IN  \/ /\ content = <<>>             \* response.content[0]
              /\ loc' = [loc EXCEPT ![r].exc = "IndexError"]
              /\ pc' = [pc EXCEPT ![r] = "finally"]
              /\ UNCHANGED <<messages, running>>
           \/ /\ content # <<>>
              /\ content[1].type = "text" /\ Len(content) = 1
              /\ messages' = Append(messages, AssistantText(r))
              /\ loc' = [loc EXCEPT ![r].results_log = {"intent", "tool_call"},
                                    ![r].ret = AssistantMessage(r)]
              /\ pc' = [pc EXCEPT ![r] = "finally"]
              /\ UNCHANGED running
           \/ /\ content # <<>>
              /\ ~(content[1].type = "text" /\ Len(content) = 1)
              /\ messages' = Append(messages,
                     Msg("assistant", ListContent(content)))
              /\ IF k = 0
                 THEN /\ loc' = [loc EXCEPT ![r].ret = ReturnNone]
                      /\ pc' = [pc EXCEPT ![r] = "finally"]
                      /\ UNCHANGED running
                 ELSE /\ loc' = [loc EXCEPT ![r].i = k,
                                            ![r].call_id = content[k].id,
                                            ![r].tool_calls = @ + 1]
                      /\ pc' = [pc EXCEPT ![r] = "call_tool"]
                      /\ running' = 0
    /\ UNCHANGED <<input_schema, flattened, llm, llm_name, policies, results_file, http, rhist>>

AnthropicToolDone(r) ==
    /\ llm_name = "anthropic"
    /\ pc[r] = "tool_done"
    /\ running = r
    /\ LET content == loc[r].tool_result.content
       IN  \/ /\ content = <<>>             \* tool_result.content[0]
              /\ loc' = [loc EXCEPT ![r].exc = "IndexError"]
              /\ pc' = [pc EXCEPT ![r] = "finally"]
              /\ UNCHANGED messages
           \/ /\ content # <<>>
              /\ messages' = Append(messages,
                     Msg("user", ListContent(<<ToolResultBlock(loc[r].call_id)>>)))
              /\ LET d == DecodeMessage(content[1])
                 IN  IF d.exc # "none"
                     THEN /\ loc' = [loc EXCEPT ![r].exc = d.exc]
                          /\ pc' = [pc EXCEPT ![r] = "finally"]
                     ELSE /\ loc' = [loc EXCEPT ![r].slice = d.value]
                          /\ pc' = [pc EXCEPT ![r] = "classify"]
    /\ UNCHANGED <<input_schema, flattened, llm, llm_name, running, policies, results_file, http,
                   rhist>>

-----------------------------------------------------------------------------
(* call_gemini *)

\* The nested loops over candidates and parts: each candidate is left at its
\* first part, by break (a function call) or by return (anything else).
RECURSIVE GeminiScan(_, _, _)
GeminiScan(candidates, c, bound) ==
    IF c > Len(candidates) THEN (IF bound THEN "tool" ELSE "unbound")
    ELSE IF candidates[c] = <<>> THEN GeminiScan(candidates, c + 1, bound)
    ELSE IF candidates[c][1].function_call
         THEN GeminiScan(candidates, c + 1, TRUE)
    ELSE "final"

GeminiHandle(r) ==
    /\ llm_name = "gemini"
    /\ pc[r] = "handle_response"
    /\ running = r
    /\ LET outcome == GeminiScan(loc[r].response, 1, FALSE)
       IN  \/ /\ outcome = "final"          \* returned, never appended
              /\ loc' = [loc EXCEPT ![r].results_log = {"intent", "tool_call"},
                                    ![r].ret = AssistantMessage(r)]
              /\ pc' = [pc EXCEPT ![r] = "finally"]
              /\ UNCHANGED running
           \/ /\ outcome = "unbound"        \* "if function_call:" unbound
              /\ loc' = [loc EXCEPT ![r].exc = "UnboundLocalError"]
              /\ pc' = [pc EXCEPT ![r] = "finally"]
              /\ UNCHANGED running
           \/ /\ outcome = "tool"
              /\ loc' = [loc EXCEPT ![r].tool_calls = @ + 1]
              /\ pc' = [pc EXCEPT ![r] = "call_tool"]
              /\ running' = 0
    /\ UNCHANGED <<input_schema, flattened, llm, llm_name, messages, policies, results_file, http,
                   rhist>>

\* GeminiToolDone with the classification call left out: the policy is
\* submitted as soon as the tool output is decoded.
GeminiToolDoneSkipsClassify(r) ==
    /\ llm_name = "gemini"
    /\ pc[r] = "tool_done"
    /\ running = r
    /\ LET content == loc[r].tool_result.content
       IN  \/ /\ content = <<>>
              /\ loc' = [loc EXCEPT ![r].exc = "IndexError"]
              /\ pc' = [pc EXCEPT ![r] = "finally"]
           \/ /\ content # <<>>
              /\ LET d == DecodeMessage(content[1])
                 IN  IF d.exc # "none"
                     THEN /\ loc' = [loc EXCEPT ![r].exc = d.exc]
                          /\ pc' = [pc EXCEPT ![r] = "finally"]
                     ELSE /\ loc' = [loc EXCEPT ![r].slice = d.value]
                          /\ pc' = [pc EXCEPT ![r] = "slice_request"]
    /\ UNCHANGED <<input_schema, flattened, llm, llm_name, messages, running, policies, results_file,
                   http, rhist>>

GeminiToolDone(r) ==
    /\ llm_name = "gemini"
    /\ pc[r] = "tool_done"
    /\ running = r
    /\ LET content == loc[r].tool_result.content
       IN  \/ /\ content = <<>>             \* tool_result.content[0]
              /\ loc' = [loc EXCEPT ![r].exc = "IndexError"]
              /\ pc' = [pc EXCEPT ![r] = "finally"]
           \/ /\ content # <<>>
              /\ LET d == DecodeMessage(content[1])
                 IN  IF d.exc # "none"
                     THEN /\ loc' = [loc EXCEPT ![r].exc = d.exc]
                          /\ pc' = [pc EXCEPT ![r] = "finally"]
                     ELSE /\ loc' = [loc EXCEPT ![r].slice = d.value]
                          /\ pc' = [pc EXCEPT ![r] = "classify"]
    /\ UNCHANGED <<input_schema, flattened, llm, llm_name, messages, running, policies, results_file,
                   http, rhist>>

-----------------------------------------------------------------------------
(* The steps after the provider asked for a tool *)

\* The exception a failed session.call_tool leaves call_<provider> with:
\* call_openai wraps it with the tool's name, the other two re-raise it.
ToolFailure(name) ==
    IF name = "openai" THEN "ToolExecutionFailed" ELSE "ToolError"

\* session.call_tool answers.
CallToolReturns(r) ==
    /\ pc[r] = "call_tool"
    /\ running = 0
    /\ \E tr \in ToolResults(r) :
         loc' = [loc EXCEPT
             ![r].tool_result = tr,
             ![r].results_log = {"intent", "intent_processing", "tool_call"}]
    /\ pc' = [pc EXCEPT ![r] = "tool_done"]
    /\ running' = r
    /\ UNCHANGED <<input_schema, flattened, llm, llm_name, messages, policies, results_file, http,
                   rhist>>

\* session.call_tool raises.
CallToolFails(r) ==
    /\ pc[r] = "call_tool"
    /\ running = 0
    /\ loc' = [loc EXCEPT ![r].tool_failed = TRUE,
                          ![r].exc = ToolFailure(llm_name)]
    /\ pc' = [pc EXCEPT ![r] = "finally"]
    /\ running' = r
    /\ UNCHANGED <<input_schema, flattened, llm, llm_name, messages, policies, results_file, http,
                   rhist>>

\* The classification call on the intent alone, and the reading of slice_type.
Classify(r) ==
    /\ pc[r] = "classify"
    /\ running = r
    /\ \/ /\ loc' = [loc EXCEPT ![r].classifier_calls = @ + 1,
                                  ![r].exc = "ClassifierError"]
          /\ pc' = [pc EXCEPT ![r] = "finally"]
       \/ \E texts \in ClassifierResponses :
            LET t == ExtractSliceType(llm_name, texts)
            IN  IF t.exc # "none"
                THEN /\ loc' = [loc EXCEPT ![r].classifier_calls = @ + 1,
                                           ![r].classifier = texts,
                                           ![r].classified = TRUE,
                                           ![r].exc = t.exc]
                     /\ pc' = [pc EXCEPT ![r] = "finally"]
                ELSE /\ loc' = [loc EXCEPT ![r].classifier_calls = @ + 1,
                                           ![r].classifier = texts,
                                           ![r].classified = TRUE,
                                           ![r].slice_type = t.value]
                     /\ pc' = [pc EXCEPT ![r] = "slice_request"]
    /\ UNCHANGED <<input_schema, flattened, llm, llm_name, messages, running, policies, results_file,
                   http, rhist>>

AllFields ==
    {"intent", "intent_processing", "tool_call", "type_definition", "policy"}

\* slice_request: requests.post(f"{rapp}/create_policy", json=...); the
\* policy service answers or the transport raises.
SliceRequest(r) ==
    /\ pc[r] = "slice_request"
    /\ running = r
    /\ policies' = Append(policies,
           [req |-> r,
            body |-> JsonLoads(Payload(loc[r].slice, loc[r].slice_type))])
    /\ \/ loc' = [loc EXCEPT ![r].exc = "PolicyTransportError"]
       \/ loc' = [loc EXCEPT ![r].results_log = AllFields,
                             ![r].ret = PolicyText(r)]
    /\ pc' = [pc EXCEPT ![r] = "finally"]
    /\ UNCHANGED <<input_schema, flattened, llm, llm_name, messages, running, results_file, http,
                   rhist>>

-----------------------------------------------------------------------------
(* The finally clause: save_results, then the HTTP response *)

\* save_results(data, file_path): the file afterwards and whether
\* DictWriter raised ValueError (a key that is not a fieldname).
SaveResults(data, file) ==
    LET fits == data.fields \subseteq FieldNames
    IN  [file |-> [exists |-> TRUE,
                   header |-> IF file.exists THEN file.header ELSE TRUE,
                   rows |-> IF fits THEN Append(file.rows, data)
                            ELSE file.rows],
         raised |-> ~fits]

\* What process_query answers: the value returned, or a 500 whose detail is
\* the exception's text.
Respond(r, exc, ret) ==
    IF exc # "none" THEN ErrorResponse(r, exc)
    ELSE [status |-> 200, kind |-> ret.kind, detail |-> "", req |-> ret.req]

Finally(r) ==
    /\ pc[r] = "finally"
    /\ running = r
    /\ LET saved == SaveResults([req |-> r, fields |-> loc[r].results_log],
                                results_file)
           exc == IF saved.raised THEN "ValueError" ELSE loc[r].exc
       IN  /\ results_file' = saved.file
           /\ loc' = [loc EXCEPT ![r] = InitLoc]   \* the locals are gone
           /\ http' = [http EXCEPT ![r] = Respond(r, exc, loc[r].ret)]
    /\ pc' = [pc EXCEPT ![r] = "done"]
    /\ running' = 0
    /\ UNCHANGED <<input_schema, flattened, llm, llm_name, messages, policies, rhist>>

-----------------------------------------------------------------------------
(* The process *)

Next ==
    \E r \in Reqs :
        \/ Start(r)
        \/ SetLlm(r)
        \/ SetLlmFails(r)
        \/ AppendIntent(r)
        \/ ProviderCall(r)
        \/ OpenaiItem(r)
        \/ OpenaiToolDone(r)
        \/ AnthropicHandle(r)
        \/ AnthropicToolDone(r)
        \/ GeminiHandle(r)
        \/ GeminiToolDone(r)
        \/ CallToolReturns(r)
        \/ CallToolFails(r)
        \/ Classify(r)
        \/ SliceRequest(r)
        \/ Finally(r)

Spec == Init /\ [][Next]_vars

-----------------------------------------------------------------------------
(* The repair pass on its own: any conversation, any provider *)

Roles == {"user", "assistant"}

\* The contents a message can have: a text, or a list of blocks.
RepairContents ==
    { TextContent("text", 0) } \cup
    { ListContent(bs) : bs \in
        { <<>>,
          <<TextBlock>>,
          <<ToolUse(1)>>,
          <<ToolUse(2)>>,
          <<ToolResultBlock(1)>>,
          <<ToolResultBlock(2)>>,
          <<ToolUse(1), ToolUse(2)>>,
          <<ToolResultBlock(1), ToolUse(2)>> } }

RepairMessages == { Msg(role, c) : role \in Roles, c \in RepairContents }

Conversations ==
    UNION { [1..n -> RepairMessages] : n \in 0..MaxConvLen }

InitRepair ==
    /\ llm \in LLMNames
    /\ llm_name = llm
    /\ messages \in Conversations
    /\ pc = [r \in Reqs |-> "idle"]
    /\ running = 0
    /\ loc = [r \in Reqs |-> InitLoc]
    /\ policies = <<>>
    /\ results_file = [exists |-> FALSE, header |-> FALSE, rows |-> <<>>]
    /\ http = [r \in Reqs |-> NoResponse]
    /\ rhist = <<messages>>
    /\ input_schema = JNone
    /\ flattened = NotCalled

\* self._repair_anthropic_messages()
ApplyRepair ==
    /\ Len(rhist) <= MaxRepairs
    /\ messages' = RepairAnthropicMessages(llm_name, messages)
    /\ rhist' = Append(rhist, messages')
    /\ UNCHANGED <<input_schema, flattened, llm, llm_name, pc, running, loc, policies, results_file,
                   http>>

NextRepair == ApplyRepair

SpecRepair == InitRepair /\ [][NextRepair]_vars

-----------------------------------------------------------------------------
(* resolve_genai_schema on its own: the schemas it is given *)

TString == JDict(<<Pair("type", JStr("string"))>>)
TNull == JDict(<<Pair("type", JStr("null"))>>)
TInteger ==
    JDict(<<Pair("type", JStr("integer")), Pair("title", JStr("own"))>>)
Ref(n) == JDict(<<Pair("$ref", JStr(RefTo[n]))>>)
AnyOf(options) == JDict(<<Pair("anyOf", JList(options))>>)

\* What an anyOf list can hold: plain types, null, references (C is in no
\* $defs) and a union.
SchemaOptions ==
    { TString, TNull, TInteger, Ref("A"), Ref("C"),
      AnyOf(<<TString, TInteger>>) }

OptionLists == UNION { [1..n -> SchemaOptions] : n \in 1..MaxOptions }

\* The keys beside anyOf at a union node.
Metas ==
    { <<>>,
      <<Pair("title", JStr("t"))>>,
      <<Pair("title", JStr("t")), Pair("description", JStr("d"))>> }

SchemaNodes ==
    SchemaOptions \cup
    { JDict(<<Pair("anyOf", JList(options))>> \o meta) :
        options \in OptionLists, meta \in Metas }

\* A entry of $defs that refers to itself, and one that refers to B.
SelfRefA ==
    JDict(<<Pair("$ref", JStr(RefTo["A"])), Pair("title", JStr("a"))>>)
RefToB ==
    JDict(<<Pair("$ref", JStr(RefTo["B"])), Pair("title", JStr("a"))>>)
\* An object whose property refers to the entry n.
ObjectWith(key, n) ==
    JDict(<<Pair("type", JStr("object")),
            Pair("properties", JDict(<<Pair(key, Ref(n))>>))>>)

\* The $defs studied: without cycle, A referring to itself, A and B
\* referring to each other directly and through properties.
DefsStudied ==
    { [A |-> TString, B |-> TInteger],
      [A |-> AnyOf(<<TString, TInteger>>), B |-> Ref("A")],
      [A |-> SelfRefA, B |-> TInteger],
      [A |-> RefToB, B |-> Ref("A")],
      [A |-> ObjectWith("b", "B"), B |-> ObjectWith("a", "A")],
      [A |-> RefToB, B |-> ObjectWith("a", "A")] }

Defs(d) == Pair("$defs", JDict(<<Pair("A", d.A), Pair("B", d.B)>>))

\* Well-formed schemas: $defs with the node under properties, or with the
\* node's keys at the top level.
WellFormedSchemas ==
    { JDict(<<Defs(d), Pair("properties", JDict(<<Pair("p", node)>>))>>) :
        d \in DefsStudied, node \in SchemaNodes }
    \cup
    { JDict(<<Defs(d)>> \o node.items) :
        d \in DefsStudied, node \in SchemaNodes }

\* Absent, non-object and malformed schemas.
BadSchemas ==
    { JNone, EmptyDict, JList(<<>>), JStr(""),
      JList(<<TString>>),
      [t |-> "tuple", s |-> "", items |-> <<Pair("", TString)>>],
      JStr("abc"),
      JInt("5"),
      JDict(<<Pair("$ref", JInt("5"))>>),
      JDict(<<Pair("properties",
                   JDict(<<Pair("p", JDict(<<Pair("$ref", JInt("5"))>>))>>))>>),
      JDict(<<Pair("properties", JDict(<<Pair("$ref", TString)>>))>>),
      JDict(<<Pair("$ref", JStr("http://x")), Pair("title", JStr("t"))>>),
      JDict(<<Pair("$defs", JDict(<<Pair("A", JStr("x"))>>)),
              Pair("$ref", JStr(RefTo["A"]))>>),
      JDict(<<Pair("$defs", JList(<<JStr("A")>>)),
              Pair("$ref", JStr(RefTo["A"]))>>),
      JDict(<<Pair("$defs", JInt("5")), Pair("$ref", JStr(RefTo["A"]))>>),
      JDict(<<Pair("anyOf", JStr("x")), Pair("title", JStr("t"))>>),
      JDict(<<Pair("anyOf", JList(<<JStr("x"), TNull>>))>>),
      JDict(<<Pair("anyOf", JList(<<JList(<<TString>>), TNull>>))>>),
      JDict(<<Pair("anyOf", JList(<<JInt("5"), TNull>>))>>),
      JDict(<<Pair("anyOf", JList(<<JStr("x"), TString>>)),
              Pair("title", JStr("t"))>>),
      JDict(<<Pair("a", PySet)>>) }

ResolverSchemas == WellFormedSchemas \cup BadSchemas

InitResolve ==
    /\ llm = "gemini"              \* set_llm resolves schemas for gemini only
    /\ llm_name = llm
    /\ messages = <<>>
    /\ pc = [r \in Reqs |-> "idle"]
    /\ running = 0
    /\ loc = [r \in Reqs |-> InitLoc]
    /\ policies = <<>>
    /\ results_file = [exists |-> FALSE, header |-> FALSE, rows |-> <<>>]
    /\ http = [r \in Reqs |-> NoResponse]
    /\ rhist = <<>>
    /\ input_schema \in ResolverSchemas
    /\ flattened = NotCalled

\* resolve_genai_schema(input_schema)
CallResolve ==
    /\ flattened = NotCalled
    /\ flattened' = resolve_genai_schema(input_schema)
    /\ UNCHANGED <<input_schema, llm, llm_name, messages, pc, running, loc,
                   policies, results_file, http, rhist>>

NextResolve == CallResolve

SpecResolve == InitResolve /\ [][NextResolve]_vars

-----------------------------------------------------------------------------
(* Properties of the repair pass (checked under SpecRepair) *)

\* The ids of the blocks of one type in a message.
BlockIds(m, type) ==
    IF m.content.list
    THEN { m.content.blocks[i].id :
             i \in { j \in 1..Len(m.content.blocks) :
                       m.content.blocks[j].type = type } }
    ELSE {}

IsToolUseTurn(m) == m.role = "assistant" /\ BlockIds(m, "tool_use") # {}

\* Every assistant tool_use message is followed at once by a message with a
\* tool_result block.
Adjacent(conv) ==
    \A i \in 1..Len(conv) :
        IsToolUseTurn(conv[i]) =>
            /\ i < Len(conv)
            /\ BlockIds(conv[i + 1], "tool_result") # {}

\* The same, the tool_result naming a tool_use of the message before it.
AdjacentById(conv) ==
    \A i \in 1..Len(conv) :
        IsToolUseTurn(conv[i]) =>
            /\ i < Len(conv)
            /\ BlockIds(conv[i + 1], "tool_result")
                   \cap BlockIds(conv[i], "tool_use") # {}

Repaired == Len(rhist) >= 2

\* C1: after the repair pass has run on an anthropic conversation, every
\* assistant message with a tool_use block is immediately followed by a
\* message with a tool_result block of the same id.
C1_RepairedToolUseAnswered ==
    (Repaired /\ llm_name = "anthropic") => AdjacentById(rhist[2])

\* C2: the repair pass is idempotent: a second pass leaves the result of the
\* first unchanged.
C2_RepairIdempotent ==
    Len(rhist) >= 3 => rhist[3] = rhist[2]

\* The conversation [user, assistant(tool_use), user(no tool_result)].
IsDanglingCase(conv) ==
    /\ Len(conv) = 3
    /\ conv[1].role = "user"
    /\ IsToolUseTurn(conv[2])
    /\ conv[3].role = "user"
    /\ BlockIds(conv[3], "tool_result") = {}

\* C3 as stated: on [user, assistant(tool_use A), user(no tool_result)] the
\* repair pass yields [user], the first message alone.
C3_DanglingYieldsFirstUserOnly ==
    (Repaired /\ llm_name = "anthropic" /\ IsDanglingCase(rhist[1]))
        => rhist[2] = <<rhist[1][1]>>

\* C3 as amended: on [user, assistant(tool_use A), user(no tool_result)] the
\* repair pass drops the assistant turn only and keeps both user messages, in
\* order.
C3_DanglingAssistantDropped ==
    (Repaired /\ llm_name = "anthropic" /\ IsDanglingCase(rhist[1]))
        => rhist[2] = <<rhist[1][1], rhist[1][3]>>

C3_Witness ==
    /\ Repaired
    /\ llm_name = "anthropic"
    /\ IsDanglingCase(rhist[1])
    /\ rhist[1][2].content.blocks = <<ToolUse(1)>>
    /\ Len(rhist[2]) = 2

\* C4: the repair pass leaves a conversation unchanged when every assistant
\* tool_use message is already immediately followed by a message with a
\* tool_result block, and it changes nothing for the other providers.
C4_RepairNoOp ==
    Repaired =>
        /\ (llm_name = "anthropic" /\ Adjacent(rhist[1])) => rhist[2] = rhist[1]
        /\ llm_name # "anthropic" => rhist[2] = rhist[1]

C4_Witness ==
    /\ Repaired
    /\ llm_name = "anthropic"
    /\ Len(rhist[1]) = 3
    /\ rhist[1][1].role = "user"
    /\ rhist[1][2] = Msg("assistant", ListContent(<<ToolUse(1)>>))
    /\ rhist[1][3] = Msg("user", ListContent(<<ToolResultBlock(1)>>))
    /\ rhist[2] = rhist[1]

-----------------------------------------------------------------------------
(* Properties of resolve_genai_schema (checked under SpecResolve) *)

\* The $defs names referred to anywhere in x.
RECURSIVE RefNames(_)
RefNames(x) ==
    (IF x.t = "dict" /\ Get(x, "$ref").t = "str"
        /\ StartsWithDefs(Get(x, "$ref").s)
     THEN {RefKey(Get(x, "$ref").s)} ELSE {})
    \cup UNION { RefNames(x.items[i].v) : i \in 1..Len(x.items) }

\* The names reachable from the names in S through the entries of defs.
RECURSIVE RefClosure(_, _)
RefClosure(defs, S) ==
    LET next == S \cup UNION { RefNames(Get(defs, m)) \cap Keys(defs) :
                                m \in S }
    IN  IF next = S THEN S ELSE RefClosure(defs, next)

\* The schema has a $defs entry that refers, directly or through other
\* entries, back to itself.
IsCyclic(schema) ==
    /\ schema.t = "dict"
    /\ Get(schema, "$defs").t = "dict"
    /\ LET defs == Get(schema, "$defs")
       IN  \E n \in Keys(defs) :
               n \in RefClosure(defs, RefNames(Get(defs, n)) \cap Keys(defs))

\* Some dict at any depth of x has one of the keys.
RECURSIVE HasKeyAnywhere(_, _)
HasKeyAnywhere(x, keys) ==
    \/ x.t = "dict" /\ Keys(x) \cap keys # {}
    \/ \E i \in 1..Len(x.items) : HasKeyAnywhere(x.items[i].v, keys)

\* C21: for a schema with a self-referential $ref cycle the call returns,
\* the output has no $ref or $defs key at any depth, and an entry whose $ref
\* points at a key being resolved resolves as if it had no $ref.
C21_CyclesTerminateWithoutRefs ==
    (flattened # NotCalled /\ IsCyclic(input_schema)) =>
        /\ flattened.exc = "none"
        /\ ~HasKeyAnywhere(flattened.value, {"$ref", "$defs"})
        /\ LET defs == Get(input_schema, "$defs")
           IN  \A m \in Keys(defs) : \A n \in RefNames(Get(defs, m)) :
                   Has(Get(defs, m), "$ref") =>
                       resolve(Get(defs, m), defs, {n}) =
                       resolve(Without(Get(defs, m), {"$ref"}), defs, {n})

\* A self-referential A = {$ref: A, title: a} referred to by property p:
\* the output keeps A's title and nothing else.
C21_Witness ==
    /\ flattened # NotCalled
    /\ IsCyclic(input_schema)
    /\ Get(Get(input_schema, "$defs"), "A") = SelfRefA
    /\ Get(Get(input_schema, "properties"), "p") = Ref("A")
    /\ flattened =
           Returned(JDict(<<Pair("properties",
               JDict(<<Pair("p", JDict(<<Pair("title", JStr("a"))>>))>>))>>))

\* The node under properties.p of a schema, and of the output.
NodeP(schema) == Get(Get(schema, "properties"), "p")

\* The node is a union of exactly one non-null option T and null.
IsNullableUnion(node) ==
    /\ node.t = "dict"
    /\ Get(node, "anyOf").t = "list"
    /\ Len(Get(node, "anyOf").items) = 2
    /\ Cardinality({ i \in 1..2 :
                       IsNullOption(Get(node, "anyOf").items[i].v) }) = 1

\* The non-null option of such a union.
NonNullOption(node) ==
    LET options == Elems(Get(node, "anyOf"))
    IN  IF IsNullOption(options[1]) THEN options[2] ELSE options[1]

\* C22: a union of exactly [T, null] under properties.p comes out as T's
\* resolved schema with the parent's title/description and nullable: true,
\* and without an anyOf key.
C22_NullableUnionCollapsed ==
    (flattened # NotCalled /\ input_schema \in WellFormedSchemas
       /\ IsNullableUnion(NodeP(input_schema)))
    => /\ flattened.exc = "none"
       /\ LET node == NodeP(input_schema)
              out == NodeP(flattened.value)
              T == resolve(NonNullOption(node),
                           Get(input_schema, "$defs"), {}).value
          IN  /\ out = Put(Update(T, Only(node, {"title", "description"})),
                           "nullable", JTrue)
              /\ ~Has(out, "anyOf")

\* C23: the call never raises; a non-object schema comes back unchanged and
\* an absent or empty one gives None.
C23_NeverRaises ==
    flattened # NotCalled =>
        /\ flattened.exc = "none"
        /\ ~Truthy(input_schema) => flattened.value = JNone
        /\ (Truthy(input_schema) /\ input_schema.t # "dict") =>
               flattened.value = input_schema

\* Every dict of x that has an anyOf key has no other key.
RECURSIVE AnyOfAlone(_)
AnyOfAlone(x) ==
    /\ (x.t = "dict" /\ Has(x, "anyOf")) => Keys(x) = {"anyOf"}
    /\ \A i \in 1..Len(x.items) : AnyOfAlone(x.items[i].v)

\* C26: in every schema returned, a node with an anyOf key has no sibling
\* key; and a union kept under properties.p has, in each branch, the node's
\* title/description unless the branch had its own.
C26_AnyOfSoleKey ==
    (flattened # NotCalled /\ input_schema \in WellFormedSchemas
       /\ flattened.exc = "none")
    => /\ AnyOfAlone(flattened.value)
       /\ LET node == NodeP(input_schema)
              out == NodeP(flattened.value)
          IN  (node.t = "dict" /\ Has(node, "anyOf") /\ Has(out, "anyOf")) =>
                  \A i \in 1..Len(Get(out, "anyOf").items) :
                      LET own == resolve(Elems(Get(node, "anyOf"))[i],
                                         Get(input_schema, "$defs"), {}).value
                          branch == Elems(Get(out, "anyOf"))[i]
                      IN  \A k \in {"title", "description"} :
                              /\ Has(own, k) => Get(branch, k) = Get(own, k)
                              /\ (~Has(own, k) /\ Has(node, k)) =>
                                     Get(branch, k) = Get(node, k)

-----------------------------------------------------------------------------
(* Properties of the /intent handler (checked under Spec) *)

\* The requests a message was written for: the request of its text, or the
\* requests whose tool calls its blocks name (0: the process itself).
Owners(m) ==
    IF m.content.list
    THEN { (id + 1) \div 2 :
             id \in BlockIds(m, "tool_use") \cup BlockIds(m, "tool_result") }
    ELSE { m.content.req }

\* C5: once the requests so far are answered, the conversation holds the
\* instructions message exactly once, at index 0.
C5_InstructionsOnce ==
    (InProgress = {} /\ messages # <<>>) =>
        /\ messages[1] = InitialPrompt
        /\ Cardinality({ i \in 1..Len(messages) : messages[i] = InitialPrompt }) = 1

\* C6: the conversation a request hands to the provider holds no message
\* written for another request that is being handled at that moment.
C6_IsolatedConversations ==
    \A r \in Reqs :
        pc[r] = "provider_call" =>
            \A i \in 1..Len(messages) :
                Owners(messages[i]) \cap (InProgress \ {r}) = {}

\* C7: at most one request has a call (list_tools or call_tool) in flight on
\* the shared tool-provider session.
C7_SessionSerialized ==
    Cardinality({ r \in Reqs : pc[r] \in {"list_tools", "call_tool"} }) <= 1

PoliciesOf(r) == SelectSeq(policies, LAMBDA p : p.req = r)

\* The tool answered {"message": D} and the classifier answered one text T.
ToolAndClassifierAnswered(r) ==
    /\ pc[r] = "finally"
    /\ loc[r].tool_calls >= 1
    /\ Len(loc[r].tool_result.content) = 1
    /\ loc[r].tool_result.content[1].json = "message"
    /\ loc[r].classified
    /\ Len(loc[r].classifier) = 1

\* C8: for each provider, a request whose tool call answered {"message": D}
\* and whose classification answered T has issued exactly one policy
\* submission, with body {sliceDescription: D, sliceType: T}; and no request
\* ever issues more than one.
C8_OnePolicySubmission ==
    \A r \in Reqs :
        /\ Len(PoliciesOf(r)) <= 1
        /\ ToolAndClassifierAnswered(r) =>
               PoliciesOf(r) =
                   << [req |-> r,
                       body |-> [sliceDescription |->
                                     loc[r].tool_result.content[1].message,
                                 sliceType |-> loc[r].classifier[1]]] >>

C8_Witness ==
    \E r \in Reqs :
        /\ ToolAndClassifierAnswered(r)
        /\ llm_name = "gemini"
        /\ loc[r].classifier = <<"eMBB">>
        /\ Len(PoliciesOf(r)) = 1
        /\ PoliciesOf(r)[1].body.sliceType = "eMBB"
        /\ PoliciesOf(r)[1].body.sliceDescription = Description(r)

\* C9: a request whose provider call, tool call, classification and policy
\* submission all succeeded is answered 200 with the policy service's body.
C9_SuccessReturnsPolicyBody ==
    [][\A r \in Reqs :
         (pc[r] = "finally" /\ pc'[r] = "done"
            /\ loc[r].exc = "none" /\ loc[r].ret = PolicyText(r))
         => http'[r] = [status |-> 200, kind |-> "policy_text",
                        detail |-> "", req |-> r]]_vars

\* C10: whatever state a process_intent call ends in, leaving it appends one
\* record holding the fields of results_log populated by then.
C10_OneRecordPerCall ==
    [][\A r \in Reqs :
         (pc[r] = "finally" /\ pc'[r] = "done")
         => results_file'.rows =
                Append(results_file.rows,
                       [req |-> r, fields |-> loc[r].results_log])]_vars

\* C11: for each provider, a call that ends because session.call_tool raised
\* has issued no policy submission, and leaving it persists one record whose
\* only populated field is the intent.
C11_ToolFailureRecordsIntentOnly ==
    [][\A r \in Reqs :
         (pc[r] = "finally" /\ pc'[r] = "done" /\ loc[r].tool_failed)
         => /\ PoliciesOf(r) = <<>>
            /\ results_file'.rows =
                   Append(results_file.rows,
                          [req |-> r, fields |-> {"intent"}])]_vars

\* A response that is plain final text: nothing but one text item.
IsFinalText(name, response) ==
    CASE name = "openai" -> response = <<MessageItem>>
      [] name = "anthropic" -> response = <<TextBlock>>
      [] OTHER -> response = << <<TextPart>> >>

\* C12: for each provider, a call whose provider response is final text ends
\* with that text appended to the conversation as an assistant message and
\* returned, no tool call, no classification call and no policy submission
\* having been issued.
C12_FinalTextAppendedAndReturned ==
    \A r \in Reqs :
        (pc[r] = "finally" /\ loc[r].provider_calls = 1
           /\ loc[r].exc # "ProviderError"
           /\ IsFinalText(llm_name, loc[r].response))
        => /\ messages # <<>>
           /\ messages[Len(messages)] = AssistantText(r)
           /\ loc[r].ret = AssistantMessage(r)
           /\ loc[r].tool_calls = 0
           /\ loc[r].classifier_calls = 0
           /\ PoliciesOf(r) = <<>>

\* The tool-result turn of request r: for anthropic a user message with a
\* tool_result block carrying the id of the tool_use block that was invoked,
\* for the other providers a user message with the tool's output.
IsToolResultTurn(m, r) ==
    /\ m.role = "user"
    /\ IF llm_name = "anthropic"
       THEN /\ m.content.list
            /\ loc[r].response[loc[r].i].type = "tool_use"
            /\ BlockIds(m, "tool_result") = {loc[r].response[loc[r].i].id}
       ELSE /\ ~m.content.list
            /\ m.content.tag = "tool_output"
            /\ m.content.req = r

\* C13: for each provider, when the classification call is about to start
\* the last message of the conversation is the tool-result turn of the tool
\* call that just answered.
C13_ToolResultAppendedBeforeClassify ==
    \A r \in Reqs :
        pc[r] = "classify" =>
            /\ messages # <<>>
            /\ IsToolResultTurn(messages[Len(messages)], r)

\* The tool call of request r answered with content to read.
ToolResultObtained(r) ==
    /\ loc[r].tool_calls >= 1
    /\ ~loc[r].tool_failed
    /\ loc[r].tool_result.content # <<>>

\* C14: within one intent a tool call is issued only once the provider has
\* answered, the classification call only once the tool result is obtained,
\* and a policy submission only once the tool call succeeded and the
\* classification call completed.
C14_StepsInOrder ==
    [][\A r \in Reqs :
         /\ loc'[r].tool_calls > loc[r].tool_calls =>
                /\ loc[r].provider_calls = 1
                /\ loc[r].response # <<>>
                /\ loc[r].classifier_calls = 0
                /\ PoliciesOf(r) = <<>>
         /\ loc'[r].classifier_calls > loc[r].classifier_calls =>
                /\ ToolResultObtained(r)
                /\ PoliciesOf(r) = <<>>
         /\ (Len(policies') > Len(policies)
               /\ policies'[Len(policies')].req = r) =>
                /\ ToolResultObtained(r)
                /\ loc[r].classified
                /\ loc[r].exc = "none"]_vars

C14_Witness ==
    \E r \in Reqs :
        /\ pc[r] = "finally"
        /\ loc[r].provider_calls = 1
        /\ ToolResultObtained(r)
        /\ loc[r].classifier_calls = 1
        /\ loc[r].classified
        /\ Len(PoliciesOf(r)) = 1
        /\ loc[r].ret = PolicyText(r)

\* C15: within one intent the provider call, the tool call, the
\* classification call and the policy submission are each issued at most
\* once, and a call that raised is followed by no further step of the loop:
\* the intent is on its way out with the exception.
C15_NoRetries ==
    \A r \in Reqs :
        /\ loc[r].provider_calls <= 1
        /\ loc[r].tool_calls <= 1
        /\ loc[r].classifier_calls <= 1
        /\ Len(PoliciesOf(r)) <= 1
        /\ loc[r].exc # "none" => pc[r] = "finally"

\* The call of request r ended with the final text returned.
FinalTextOutcome(r) == loc[r].ret = AssistantMessage(r)

\* The call of request r turned the response into a tool invocation.
ToolRequestOutcome(r) == loc[r].tool_calls >= 1

\* C16: a call whose provider call answered ends with exactly one of the two
\* outcomes, whatever the shape of the response: the final text returned, or
\* a tool invocation issued.
C16_ExactlyOneOutcome ==
    \A r \in Reqs :
        (pc[r] = "finally" /\ loc[r].provider_calls = 1
           /\ loc[r].exc # "ProviderError")
        => (FinalTextOutcome(r) /\ ~ToolRequestOutcome(r))
           \/ (ToolRequestOutcome(r) /\ ~FinalTextOutcome(r))

\* C17: a call that ends with an exception is answered 500 with that
\* exception's text as detail; a call that fails while saving the results is
\* answered 500 as well; only a call without any failure is answered 200.
C17_FailuresSurfaceAs500 ==
    [][\A r \in Reqs :
         /\ (pc[r] = "list_tools" /\ pc'[r] = "done") =>
                http'[r] = ErrorResponse(r, "Failed to get tools")
         /\ (pc[r] = "finally" /\ pc'[r] = "done") =>
                /\ loc[r].exc # "none" =>
                       http'[r] = ErrorResponse(r, loc[r].exc)
                /\ ~(loc[r].results_log \subseteq FieldNames) =>
                       http'[r].status = 500
                /\ http'[r].status \in {200, 500}]_vars

\* C18: for each provider, a failed session.call_tool leaves the call with
\* the exception that wraps the failure with the failing tool's name, and
\* only that request is aborted: no other request changes its position.
C18_ToolErrorWrapped ==
    [][\A r \in Reqs :
         (pc[r] = "call_tool" /\ pc'[r] = "finally") =>
             /\ loc'[r].tool_failed
             /\ loc'[r].exc = "ToolExecutionFailed"
             /\ \A q \in Reqs \ {r} : pc'[q] = pc[q] /\ loc'[q] = loc[q]]_vars

SliceTypes == {"eMBB", "uRRLC", "mMTC"}

\* C19: every body posted to create_policy has the sliceDescription decoded
\* from a tool output and a sliceType that is one of eMBB, uRRLC, mMTC,
\* whatever the classifier answered.
C19_PolicyBodyWellTyped ==
    \A k \in 1..Len(policies) :
        /\ policies[k].body.sliceDescription \in {Description(r) : r \in Reqs}
        /\ policies[k].body.sliceType \in SliceTypes

\* C20: the tool descriptors are fetched at connect time only: no request
\* being handled has a list_tools call in flight.
C20_NoDiscoveryWhileServing ==
    \A r \in Reqs : pc[r] # "list_tools"

\* C24: every conversation handed to the anthropic provider, whatever the
\* requests before it ended with, has each assistant tool_use message
\* followed at once by a message with a tool_result block.
C24_SubmittedConversationsAdjacent ==
    \A r \in Reqs :
        (llm_name = "anthropic" /\ pc[r] = "provider_call") =>
            Adjacent(messages)

\* The second intent is submitted after the first one's tool call failed and
\* left its assistant tool_use turn behind: the turn is gone.
C24_Witness ==
    /\ llm_name = "anthropic"
    /\ pc[1] = "done"
    /\ http[1] = ErrorResponse(1, "ToolError")
    /\ pc[2] = "provider_call"
    /\ messages = <<InitialPrompt, InitialPrompt, UserIntent(1), UserIntent(2)>>

\* Some part of the first candidate has a function call.
FirstCandidateCallsTool(response) ==
    /\ response # <<>>
    /\ \E j \in 1..Len(response[1]) : response[1][j].function_call

\* C25: call_gemini turns a response into a tool request whenever some part
\* of the first candidate has a function call, and returns final text only
\* when none has.
C25_GeminiFirstCandidateDecides ==
    [][\A r \in Reqs :
         (llm_name = "gemini" /\ pc[r] = "handle_response"
            /\ pc'[r] # "handle_response")
         => /\ FirstCandidateCallsTool(loc[r].response) => pc'[r] = "call_tool"
            /\ loc'[r].ret = AssistantMessage(r) =>
                   ~FirstCandidateCallsTool(loc[r].response)]_vars

\* a is b with some elements left out, the order kept.
RECURSIVE IsSubseq(_, _)
IsSubseq(a, b) ==
    IF a = <<>> THEN TRUE
    ELSE IF b = <<>> THEN FALSE
    ELSE IF Head(a) = Head(b) THEN IsSubseq(Tail(a), Tail(b))
    ELSE IsSubseq(a, Tail(b))

\* The step is the one in which call_anthropic runs the repair pass.
IsRepairStep ==
    \E r \in Reqs : llm_name = "anthropic" /\ pc[r] = "append_intent"
                      /\ pc'[r] = "provider_call"

\* C27: outside the repair pass every step leaves the messages of the
\* conversation in place and in order: it only adds to them.
C27_ConversationOnlyGrows ==
    [][~IsRepairStep =>
         /\ Len(messages') >= Len(messages)
         /\ IsSubseq(messages, messages')]_vars

\* Two intents have left their turns in the conversation, the second after
\* the first one's final text.
C27_Witness ==
    /\ llm_name = "openai"
    /\ pc[1] = "done"
    /\ pc[2] = "classify"
    /\ messages = <<InitialPrompt, InitialPrompt, UserIntent(1),
                    AssistantText(1), UserIntent(2),
                    Msg("user", TextContent("tool_output", 2))>>

\* out is conv with only assistant tool_use messages left out.
RECURSIVE OnlyToolUseTurnsDeleted(_, _)
OnlyToolUseTurnsDeleted(conv, out) ==
    IF conv = <<>> THEN out = <<>>
    ELSE \/ /\ out # <<>>
            /\ Head(conv) = Head(out)
            /\ OnlyToolUseTurnsDeleted(Tail(conv), Tail(out))
         \/ /\ IsToolUseTurn(Head(conv))
            /\ OnlyToolUseTurnsDeleted(Tail(conv), out)

\* C28: the repair pass gives the conversation with some assistant tool_use
\* messages left out and nothing else changed.
C28_RepairOnlyDeletesToolUse ==
    Repaired => OnlyToolUseTurnsDeleted(rhist[1], rhist[2])

\* The pass removed a tool_use turn and kept the user messages around it.
C28_Witness ==
    /\ Repaired
    /\ llm_name = "anthropic"
    /\ Len(rhist[1]) = 3
    /\ Len(rhist[2]) = 2
    /\ rhist[1][1].role = "user"
    /\ IsToolUseTurn(rhist[1][2])
    /\ rhist[1][3].role = "user"
    /\ rhist[2] = <<rhist[1][1], rhist[1][3]>>

\* C29: on the anthropic path, a tool_result message is appended right after
\* the assistant message carrying the tool_use with the same id.
C29_ToolResultFollowsItsToolUse ==
    [][\A r \in Reqs :
         (llm_name = "anthropic" /\ pc[r] = "tool_done"
            /\ messages' # messages)
         => /\ messages # <<>>
            /\ IsToolUseTurn(messages[Len(messages)])
            /\ loc[r].call_id \in
                   BlockIds(messages[Len(messages)], "tool_use")]_vars

====
